---- MODULE Spec2Model ----
(***************************************************************************)
(* Model of driver/LKM/src/util.c: the kallsyms resolver, the dentry path  *)
(* reconstruction, the super_block uuid locator and the OAAT64 hash.       *)
(***************************************************************************)
EXTENDS Integers, Sequences, FiniteSets, TLC

VARIABLES
    \* directory-entry tree (struct dentry fields)
    d_parent, d_name, d_lock,
    \* smith_dentry_path, one activation per thread
    pc, leaf, capacity, dentry, parent, buf, buflen, end, retval, error,
    result, oob,
    \* build configuration: LINUX_VERSION_CODE
    kver,
    \* the resolver: the cached pointer, the kprobe facility, one
    \* activation of smith_kallsyms_lookup_name per thread
    kallsyms_lookup_name_sym, probes, regCount, okCount, calls,
    spc, sname, addr, seen, via, regResult, sret,
    \* the values assigned to the cached pointer at line 44, in order
    stores,
    \* build configuration: whether plain char is signed
    charSigned,
    \* hash_murmur_OAAT64: the two byte buffers, the length, the results
    hs, hlen, hout,
    \* smith_query_sb_uuid: descriptor contents by base address, and the
    \* calls made so far
    sbData, uuidLog,
    \* the filesystem layer renaming nodes: its position, the node it works
    \* on, the renames done, and every (name, parent) pair a node has held
    rpc, rnode, renames, pairs

pathVars == <<d_parent, d_name, d_lock, pc, leaf, capacity, dentry, parent,
              buf, buflen, end, retval, error, result, oob>>

symVars == <<kallsyms_lookup_name_sym, probes, regCount, okCount, calls,
             spc, sname, addr, seen, via, regResult, sret, stores>>

hashVars == <<charSigned, hs, hlen, hout>>

uuidVars == <<sbData, uuidLog>>

renVars == <<rpc, rnode, renames, pairs>>

vars == <<pathVars, kver, symVars, hashVars, uuidVars, renVars>>

----------------------------------------------------------------------------
\* Bounds of the model
MaxDepth == 2
MaxNameLen == 2
MaxCalls == 3
MaxHashLen == 2
MaxRenames == 2

Threads == {1, 2}
Chars == {"a", "b"}
NUL == "NUL"
SLASH == "/"
UNINIT == "?"

\* errno value used by prepend and smith_dentry_path
ENAMETOOLONG == 36

ERR_PTR(e) == e

KERNEL_VERSION(a, b, c) == a * 65536 + b * 256 + c

NamesUpTo(k) == UNION {[1..j -> Chars] : j \in 0..k}
Names == NamesUpTo(MaxNameLen)

----------------------------------------------------------------------------
\* The dentry tree: one chain per thread, chain t rooted at RootOf(t).
ChainSize == MaxDepth + 1
Nodes == 1..(2 * ChainSize)
RootOf(t) == (t - 1) * ChainSize + 1

IS_ROOT(n) == d_parent[n] = n

RECURSIVE Depth(_)
Depth(n) == IF IS_ROOT(n) THEN 0 ELSE 1 + Depth(d_parent[n])

RECURSIVE TotalLen(_)
TotalLen(n) == IF IS_ROOT(n) THEN 0 ELSE Len(d_name[n]) + TotalLen(d_parent[n])

\* "/name1/.../nameD", root-most component first; "/" for the root alone
RECURSIVE Components(_)
Components(n) ==
    IF IS_ROOT(n) THEN <<>>
    ELSE Components(d_parent[n]) \o <<SLASH>> \o d_name[n]

PathOf(n) == IF IS_ROOT(n) THEN <<SLASH>> ELSE Components(n)

\* The C string that starts at offset p of memory m
RECURSIVE CStr(_, _)
CStr(m, p) ==
    IF p \notin DOMAIN m \/ m[p] = NUL THEN <<>>
    ELSE <<m[p]>> \o CStr(m, p + 1)

----------------------------------------------------------------------------
\* prepend() without the capacity test
prepend_unchecked(buffer, len, mem, str) ==
    LET namelen == Len(str)
        n == len - namelen
        b == buffer - namelen
    IN  [ret |-> 0, buffer |-> b, buflen |-> n,
         mem |-> [i \in DOMAIN mem |->
                     IF i >= b /\ i < buffer THEN str[i - b + 1]
                     ELSE mem[i]],
         oob |-> (namelen > 0 /\ b < 0)]

\* prepend() with the capacity test off by one (<= instead of <)
prepend_offbyone(buffer, len, mem, str) ==
    LET namelen == Len(str)
        n == len - namelen
        b == buffer - namelen
    IN  IF n <= 0
        THEN [ret |-> -ENAMETOOLONG, buffer |-> buffer, buflen |-> n,
              mem |-> mem, oob |-> FALSE]
        ELSE [ret |-> 0, buffer |-> b, buflen |-> n,
              mem |-> [i \in DOMAIN mem |->
                          IF i >= b /\ i < buffer THEN str[i - b + 1]
                          ELSE mem[i]],
              oob |-> (namelen > 0 /\ b < 0)]

\* prepend(): pointers are offsets from buf; mem is the caller's buffer
prepend(buffer, len, mem, str) ==
    LET namelen == Len(str)
        n == len - namelen
        b == buffer - namelen
    IN  IF n < 0
        THEN [ret |-> -ENAMETOOLONG, buffer |-> buffer, buflen |-> n,
              mem |-> mem, oob |-> FALSE]
        ELSE [ret |-> 0, buffer |-> b, buflen |-> n,
              mem |-> [i \in DOMAIN mem |->
                          IF i >= b /\ i < buffer THEN str[i - b + 1]
                          ELSE mem[i]],
              oob |-> (namelen > 0 /\ b < 0)]

\* prepend_name() taking the qstr of the parent instead of the node
prepend_name_parent(buffer, len, mem, n) ==
    prepend(buffer, len, mem, d_name[d_parent[n]])

prepend_name(buffer, len, mem, n) == prepend(buffer, len, mem, d_name[n])

\* Elong returning the partial result instead of the sentinel
ElongPartial(t) == retval[t]

ElongValue(t) == ERR_PTR(-ENAMETOOLONG)

\* line 86 with the store of '/' left out
ProvisionalSkipped(mem, p) == mem

\* line 86: *retval = '/'
Provisional(mem, p) == [i \in DOMAIN mem |-> IF i = p THEN SLASH ELSE mem[i]]

\* label Elong: return ERR_PTR(-ENAMETOOLONG)
Elong(t) ==
    /\ pc' = [pc EXCEPT ![t] = "done"]
    /\ result' = [result EXCEPT ![t] = ElongValue(t)]

\* lines 79-86: reserve the terminator, write the provisional '/'
Entry(t) ==
    /\ pc[t] = "L79"
    /\ LET r == prepend(capacity[t], capacity[t], buf[t], <<NUL>>)
       IN  /\ buflen' = [buflen EXCEPT ![t] = r.buflen]
           /\ end' = [end EXCEPT ![t] = r.buffer]
           /\ IF r.buflen < 1
              THEN /\ Elong(t)
                   /\ buf' = [buf EXCEPT ![t] = r.mem]
                   /\ oob' = [oob EXCEPT ![t] = oob[t] \/ r.oob]
                   /\ UNCHANGED retval
              ELSE /\ retval' = [retval EXCEPT ![t] = r.buffer - 1]
                   /\ buf' = [buf EXCEPT ![t] =
                                 Provisional(r.mem, r.buffer - 1)]
                   /\ oob' = [oob EXCEPT ![t] =
                                 oob[t] \/ r.oob \/ r.buffer - 1 < 0]
                   /\ pc' = [pc EXCEPT ![t] = "L88"]
                   /\ UNCHANGED result
    /\ UNCHANGED <<d_parent, d_name, d_lock, leaf, capacity, dentry, parent,
                   error>>
    /\ UNCHANGED <<kver, symVars, hashVars, uuidVars, renVars>>

\* line 88: while (!IS_ROOT(dentry)); line 102: return retval
LoopTest(t) ==
    /\ pc[t] = "L88"
    /\ IF IS_ROOT(dentry[t])
       THEN /\ pc' = [pc EXCEPT ![t] = "done"]
            /\ result' = [result EXCEPT ![t] = retval[t]]
       ELSE /\ pc' = [pc EXCEPT ![t] = "L89"]
            /\ UNCHANGED result
    /\ UNCHANGED <<d_parent, d_name, d_lock, leaf, capacity, dentry, parent,
                   buf, buflen, end, retval, error, oob>>
    /\ UNCHANGED <<kver, symVars, hashVars, uuidVars, renVars>>

\* lines 89-92: parent = dentry->d_parent; prefetch(parent)
SnapParent(t) ==
    /\ pc[t] = "L89"
    /\ parent' = [parent EXCEPT ![t] = d_parent[dentry[t]]]
    /\ pc' = [pc EXCEPT ![t] = "L93"]
    /\ UNCHANGED <<d_parent, d_name, d_lock, leaf, capacity, dentry, buf,
                   buflen, end, retval, error, result, oob>>
    /\ UNCHANGED <<kver, symVars, hashVars, uuidVars, renVars>>

\* hand-over-hand locking: the parent's d_lock is taken with the node's
LockWithParent(t) ==
    /\ pc[t] = "L93"
    /\ d_lock[dentry[t]] = 0
    /\ d_lock[parent[t]] = 0
    /\ d_lock' = [n \in Nodes |->
                     IF n \in {dentry[t], parent[t]} THEN t ELSE d_lock[n]]
    /\ pc' = [pc EXCEPT ![t] = "L94"]
    /\ UNCHANGED <<d_parent, d_name, leaf, capacity, dentry, parent, buf,
                   buflen, end, retval, error, result, oob>>
    /\ UNCHANGED <<kver, symVars, hashVars, uuidVars, renVars>>

\* line 93: spin_lock(&dentry->d_lock)
Lock(t) ==
    /\ pc[t] = "L93"
    /\ d_lock[dentry[t]] = 0
    /\ d_lock' = [d_lock EXCEPT ![dentry[t]] = t]
    /\ pc' = [pc EXCEPT ![t] = "L94"]
    /\ UNCHANGED <<d_parent, d_name, leaf, capacity, dentry, parent, buf,
                   buflen, end, retval, error, result, oob>>
    /\ UNCHANGED <<kver, symVars, hashVars, uuidVars, renVars>>

\* line 94: error = prepend_name(&end, &buflen, &dentry->d_name)
PrependName(t) ==
    /\ pc[t] = "L94"
    /\ LET r == prepend_name(end[t], buflen[t], buf[t], dentry[t])
       IN  /\ error' = [error EXCEPT ![t] = r.ret]
           /\ end' = [end EXCEPT ![t] = r.buffer]
           /\ buflen' = [buflen EXCEPT ![t] = r.buflen]
           /\ buf' = [buf EXCEPT ![t] = r.mem]
           /\ oob' = [oob EXCEPT ![t] = oob[t] \/ r.oob]
    /\ pc' = [pc EXCEPT ![t] = "L95"]
    /\ UNCHANGED <<d_parent, d_name, d_lock, leaf, capacity, dentry, parent,
                   retval, result>>
    /\ UNCHANGED <<kver, symVars, hashVars, uuidVars, renVars>>

\* line 95 left out: the walk goes on with d_lock held
UnlockForgotten(t) ==
    /\ pc[t] = "L95"
    /\ pc' = [pc EXCEPT ![t] = "L96"]
    /\ UNCHANGED <<d_parent, d_name, d_lock, leaf, capacity, dentry, parent,
                   buf, buflen, end, retval, error, result, oob>>
    /\ UNCHANGED <<kver, symVars, hashVars, uuidVars, renVars>>

\* the failure exit taken before the unlock
UnlockSkippedOnError(t) ==
    /\ pc[t] = "L95"
    /\ IF error[t] # 0
       THEN /\ Elong(t)
            /\ UNCHANGED d_lock
       ELSE /\ d_lock' = [d_lock EXCEPT ![dentry[t]] = 0]
            /\ pc' = [pc EXCEPT ![t] = "L96"]
            /\ UNCHANGED result
    /\ UNCHANGED <<d_parent, d_name, leaf, capacity, dentry, parent, buf,
                   buflen, end, retval, error, oob>>
    /\ UNCHANGED <<kver, symVars, hashVars, uuidVars, renVars>>

\* line 95: spin_unlock(&dentry->d_lock)
Unlock(t) ==
    /\ pc[t] = "L95"
    /\ d_lock' = [d_lock EXCEPT ![dentry[t]] = 0]
    /\ pc' = [pc EXCEPT ![t] = "L96"]
    /\ UNCHANGED <<d_parent, d_name, leaf, capacity, dentry, parent, buf,
                   buflen, end, retval, error, result, oob>>
    /\ UNCHANGED <<kver, symVars, hashVars, uuidVars, renVars>>

\* lines 96-100: check error, prepend "/", retval = end, dentry = parent
Separator(t) ==
    /\ pc[t] = "L96"
    /\ IF error[t] # 0
       THEN /\ Elong(t)
            /\ UNCHANGED <<buf, buflen, end, retval, dentry, oob>>
       ELSE LET r == prepend(end[t], buflen[t], buf[t], <<SLASH>>)
            IN  /\ buflen' = [buflen EXCEPT ![t] = r.buflen]
                /\ end' = [end EXCEPT ![t] = r.buffer]
                /\ buf' = [buf EXCEPT ![t] = r.mem]
                /\ oob' = [oob EXCEPT ![t] = oob[t] \/ r.oob]
                /\ IF r.ret # 0
                   THEN /\ Elong(t)
                        /\ UNCHANGED <<retval, dentry>>
                   ELSE /\ retval' = [retval EXCEPT ![t] = r.buffer]
                        /\ dentry' = [dentry EXCEPT ![t] = parent[t]]
                        /\ pc' = [pc EXCEPT ![t] = "L88"]
                        /\ UNCHANGED result
    /\ UNCHANGED <<d_parent, d_name, d_lock, leaf, capacity, parent, error>>
    /\ UNCHANGED <<kver, symVars, hashVars, uuidVars, renVars>>

smith_dentry_path(t) ==
    \/ Entry(t)
    \/ LoopTest(t)
    \/ SnapParent(t)
    \/ Lock(t)
    \/ PrependName(t)
    \/ Unlock(t)
    \/ Separator(t)

----------------------------------------------------------------------------
----------------------------------------------------------------------------
\* The symbol resolver

\* line 12: the kprobe strategy is built for >= 5.7.0 and for < 2.6.33
Indirect ==
    kver >= KERNEL_VERSION(5, 7, 0) \/ kver < KERNEL_VERSION(2, 6, 33)

KernelBuilds == {KERNEL_VERSION(2, 6, 32), KERNEL_VERSION(2, 6, 38),
                 KERNEL_VERSION(4, 19, 0), KERNEL_VERSION(5, 7, 0)}

SymNames == {"sys_call_table", "no_such_symbol"}

\* probe.addr after a successful register_kprobe: the entry of the
\* kernel's kallsyms_lookup_name
LookupNameAddr == 4096

SysCallTableAddr == 8192

\* the kernel's own lookup routine: address of the symbol, 0 when unknown
kallsyms_lookup_name(name) ==
    IF name = "sys_call_table" THEN SysCallTableAddr ELSE 0

\* a caller enters smith_kallsyms_lookup_name(name)
Begin(t) ==
    /\ calls < MaxCalls
    /\ calls' = calls + 1
    /\ \E n \in SymNames : sname' = [sname EXCEPT ![t] = n]
    /\ spc' = [spc EXCEPT ![t] = IF Indirect THEN "L43" ELSE "L55"]
    /\ via' = [via EXCEPT ![t] = 0]
    /\ regResult' = [regResult EXCEPT ![t] = "none"]
    /\ addr' = [addr EXCEPT ![t] = 0]
    /\ seen' = [seen EXCEPT ![t] = 0]
    /\ UNCHANGED <<stores, kallsyms_lookup_name_sym, probes, regCount, okCount, sret>>
    /\ UNCHANGED <<kver, renVars, pathVars, hashVars, uuidVars>>

Call(t) ==
    /\ spc[t] = "idle"
    /\ Begin(t)

\* calls made one after the other: a call starts when none is in progress
CallSeq(t) ==
    /\ \A u \in Threads : spc[u] = "idle"
    /\ Begin(t)

\* line 43 taken as always true
CheckCacheAlways(t) ==
    /\ spc[t] = "L43"
    /\ seen' = [seen EXCEPT ![t] = kallsyms_lookup_name_sym]
    /\ spc' = [spc EXCEPT ![t] = "L32"]
    /\ UNCHANGED <<stores, kallsyms_lookup_name_sym, probes, regCount, okCount,
                   calls, sname, addr, via, regResult, sret>>
    /\ UNCHANGED <<kver, renVars, pathVars, hashVars, uuidVars>>

\* line 43: if (!kallsyms_lookup_name_sym)
CheckCache(t) ==
    /\ spc[t] = "L43"
    /\ seen' = [seen EXCEPT ![t] = kallsyms_lookup_name_sym]
    /\ spc' = [spc EXCEPT ![t] =
                  IF kallsyms_lookup_name_sym = 0 THEN "L32" ELSE "L48"]
    /\ UNCHANGED <<stores, kallsyms_lookup_name_sym, probes, regCount, okCount,
                   calls, sname, addr, via, regResult, sret>>
    /\ UNCHANGED <<kver, renVars, pathVars, hashVars, uuidVars>>

\* get_kallsyms_func, lines 29-35: register_kprobe succeeds or fails
Register(t) ==
    /\ spc[t] = "L32"
    /\ regCount' = regCount + 1
    /\ \E ok \in BOOLEAN :
         IF ok
         THEN /\ probes' = probes \cup {t}
              /\ okCount' = okCount + 1
              /\ addr' = [addr EXCEPT ![t] = LookupNameAddr]
              /\ regResult' = [regResult EXCEPT ![t] = "ok"]
              /\ spc' = [spc EXCEPT ![t] = "L36"]
         ELSE /\ addr' = [addr EXCEPT ![t] = 0]
              /\ regResult' = [regResult EXCEPT ![t] = "fail"]
              /\ spc' = [spc EXCEPT ![t] = "L44"]
              /\ UNCHANGED <<probes, okCount>>
    /\ UNCHANGED <<stores, kallsyms_lookup_name_sym, calls, sname, seen, via, sret>>
    /\ UNCHANGED <<kver, renVars, pathVars, hashVars, uuidVars>>

\* get_kallsyms_func returning addr with the unregister_kprobe left out
UnregisterSkipped(t) ==
    /\ spc[t] = "L36"
    /\ spc' = [spc EXCEPT ![t] = "L44"]
    /\ UNCHANGED <<stores, kallsyms_lookup_name_sym, probes, regCount, okCount,
                   calls, sname, addr, seen, via, regResult, sret>>
    /\ UNCHANGED <<kver, renVars, pathVars, hashVars, uuidVars>>

\* get_kallsyms_func, lines 36-37: unregister_kprobe, return addr
Unregister(t) ==
    /\ spc[t] = "L36"
    /\ probes' = probes \ {t}
    /\ spc' = [spc EXCEPT ![t] = "L44"]
    /\ UNCHANGED <<stores, kallsyms_lookup_name_sym, regCount, okCount, calls, sname,
                   addr, seen, via, regResult, sret>>
    /\ UNCHANGED <<kver, renVars, pathVars, hashVars, uuidVars>>

\* line 44: kallsyms_lookup_name_sym = (void *)get_kallsyms_func()
Store(t) ==
    /\ spc[t] = "L44"
    /\ kallsyms_lookup_name_sym' = addr[t]
    /\ stores' = Append(stores, addr[t])
    /\ seen' = [seen EXCEPT ![t] = addr[t]]
    /\ spc' = [spc EXCEPT ![t] = "L45"]
    /\ UNCHANGED <<probes, regCount, okCount, calls, sname, addr, via,
                   regResult, sret>>
    /\ UNCHANGED <<kver, renVars, pathVars, hashVars, uuidVars>>

\* line 45 left out: the call goes on to line 48 whatever was stored
CheckResolvedSkipped(t) ==
    /\ spc[t] = "L45"
    /\ spc' = [spc EXCEPT ![t] = "L48"]
    /\ UNCHANGED <<stores, kallsyms_lookup_name_sym, probes, regCount, okCount,
                   calls, sname, addr, seen, via, regResult, sret>>
    /\ UNCHANGED <<kver, renVars, pathVars, hashVars, uuidVars>>

\* lines 45-46: if (!kallsyms_lookup_name_sym) return 0; the plain global
\* is either loaded again or taken from the value just stored
CheckResolved(t) ==
    /\ spc[t] = "L45"
    /\ \E v \in {kallsyms_lookup_name_sym, seen[t]} :
         /\ seen' = [seen EXCEPT ![t] = v]
         /\ IF v = 0
            THEN /\ sret' = [sret EXCEPT ![t] = 0]
                 /\ spc' = [spc EXCEPT ![t] = "idle"]
            ELSE /\ spc' = [spc EXCEPT ![t] = "L48"]
                 /\ UNCHANGED sret
    /\ UNCHANGED <<stores, kallsyms_lookup_name_sym, probes, regCount, okCount,
                   calls, sname, addr, via, regResult>>
    /\ UNCHANGED <<kver, renVars, pathVars, hashVars, uuidVars>>

\* line 48: return kallsyms_lookup_name_sym(name); a call through 0 faults
Dispatch(t) ==
    /\ spc[t] = "L48"
    /\ \E f \in {kallsyms_lookup_name_sym, seen[t]} :
         IF f = 0
         THEN /\ spc' = [spc EXCEPT ![t] = "fault"]
              /\ UNCHANGED <<via, sret>>
         ELSE /\ via' = [via EXCEPT ![t] = f]
              /\ sret' = [sret EXCEPT ![t] = kallsyms_lookup_name(sname[t])]
              /\ spc' = [spc EXCEPT ![t] = "idle"]
    /\ UNCHANGED <<stores, kallsyms_lookup_name_sym, probes, regCount, okCount,
                   calls, sname, addr, seen, regResult>>
    /\ UNCHANGED <<kver, renVars, pathVars, hashVars, uuidVars>>

\* lines 53-56: the direct strategy
Direct(t) ==
    /\ spc[t] = "L55"
    /\ sret' = [sret EXCEPT ![t] = kallsyms_lookup_name(sname[t])]
    /\ spc' = [spc EXCEPT ![t] = "idle"]
    /\ UNCHANGED <<stores, kallsyms_lookup_name_sym, probes, regCount, okCount,
                   calls, sname, addr, seen, via, regResult>>
    /\ UNCHANGED <<kver, renVars, pathVars, hashVars, uuidVars>>

----------------------------------------------------------------------------
\* The volume-identity locator

SbBases == {4096, 8192, 12288}
SbContents == {0, 7}

\* offsetof(struct super_block, s_dev) and offsetof(struct super_block,
\* s_uuid) of the kernel headers the module is built against
OFFSET_s_dev == 16
OFFSET_s_uuid == 1088

\* a locator that falls back to s_dev when the s_uuid field is nil
smith_query_sb_uuid_nil_fallback(sb) ==
    IF kver < KERNEL_VERSION(2, 6, 39) \/ sbData[sb] = 0
    THEN sb + OFFSET_s_dev
    ELSE sb + OFFSET_s_uuid

\* lines 107-116
smith_query_sb_uuid(sb) ==
    IF kver < KERNEL_VERSION(2, 6, 39)
    THEN sb + OFFSET_s_dev
    ELSE sb + OFFSET_s_uuid

\* a caller locates the identifier of descriptor sb
QueryUuid(sb) ==
    /\ uuidLog' = uuidLog \cup
           {[base |-> sb, data |-> sbData[sb], ret |-> smith_query_sb_uuid(sb)]}
    /\ UNCHANGED sbData
    /\ UNCHANGED <<kver, renVars, pathVars, symVars, hashVars>>

UuidIdle ==
    /\ sbData = [b \in SbBases |-> 0]
    /\ uuidLog = {}

----------------------------------------------------------------------------
\* The fingerprint hasher; a uint64_t is its eight bytes, low byte first

HashBytes == {0, 1, 128, 255}

\* h = 525201411107845655ull
HashSeed == <<23, 246, 157, 152, 230, 227, 73, 7>>

\* 0x5bd1e9955bd1e995
HashMul == <<149, 233, 209, 91, 149, 233, 209, 91>>

RECURSIVE XorBits(_, _, _)
XorBits(a, b, n) ==
    IF n = 0 THEN 0
    ELSE (((a % 2) + (b % 2)) % 2) + 2 * XorBits(a \div 2, b \div 2, n - 1)

Xor64(x, y) == [i \in 1..8 |-> XorBits(x[i], y[i], 8)]

RECURSIVE ColSum(_, _, _, _)
ColSum(x, y, k, i) ==
    IF i > k THEN 0 ELSE x[i] * y[k + 1 - i] + ColSum(x, y, k, i + 1)

RECURSIVE MulFrom(_, _, _, _)
MulFrom(x, y, k, carry) ==
    IF k > 8 THEN <<>>
    ELSE LET sum == ColSum(x, y, k, 1) + carry
         IN <<sum % 256>> \o MulFrom(x, y, k + 1, sum \div 256)

\* product modulo 2^64
Mul64(x, y) == MulFrom(x, y, 1, 0)

\* h >> 47
Shr47(x) ==
    LET v == (x[6] \div 128) + 2 * x[7] + 512 * x[8]
    IN <<v % 256, (v \div 256) % 256, v \div 65536, 0, 0, 0, 0, 0>>

\* the conversion with the byte cut to seven bits
CharToU64Masked(c) == <<c % 128, 0, 0, 0, 0, 0, 0, 0>>

\* (uint64_t)(s[i]): a signed char is sign-extended
CharToU64(c) ==
    IF charSigned /\ c >= 128
    THEN <<c, 255, 255, 255, 255, 255, 255, 255>>
    ELSE <<c, 0, 0, 0, 0, 0, 0, 0>>

\* lines 124-126
HashStep(h, c) ==
    LET h1 == Xor64(h, CharToU64(c))
        h2 == Mul64(h1, HashMul)
    IN Xor64(h2, Shr47(h2))

RECURSIVE HashLoop(_, _, _, _)
HashLoop(h, s, i, len) ==
    IF i < len THEN HashLoop(HashStep(h, s[i + 1]), s, i + 1, len) ELSE h

hash_murmur_OAAT64(s, len) == HashLoop(HashSeed, s, 0, len)

\* a caller hashes buffer k
HashCall(k) ==
    /\ hout[k] = <<>>
    /\ hout' = [hout EXCEPT ![k] = hash_murmur_OAAT64(hs[k], hlen)]
    /\ UNCHANGED <<charSigned, hs, hlen>>
    /\ UNCHANGED <<kver, renVars, pathVars, symVars, uuidVars>>

HashIdle ==
    /\ charSigned = TRUE
    /\ hs = <<<<>>, <<>>>>
    /\ hlen = 0
    /\ hout = <<<<>>, <<>>>>

----------------------------------------------------------------------------
\* The filesystem layer: a renamer takes one node's d_lock, gives the node
\* a new name and a new parent together, and releases the lock.  With the
\* name and parent it already has, the step is the critical section of an
\* unlink.

Renamer == Cardinality(Threads) + 1

RenameNames == {<<"b">>}

\* the nodes of the chain the walkers were started on
LiveNodes == {n \in Nodes : \E t \in Threads : RootOf(1) <= n /\ n <= leaf[t]}

RenameBegin(n) ==
    /\ rpc = "idle"
    /\ renames < MaxRenames
    /\ n \in LiveNodes \ {RootOf(1)}
    /\ rnode' = n
    /\ rpc' = "want"
    /\ UNCHANGED <<renames, pairs>>
    /\ UNCHANGED <<kver, pathVars, symVars, hashVars, uuidVars>>

RenameLock ==
    /\ rpc = "want"
    /\ d_lock[rnode] = 0
    /\ d_lock' = [d_lock EXCEPT ![rnode] = Renamer]
    /\ rpc' = "locked"
    /\ UNCHANGED <<rnode, renames, pairs>>
    /\ UNCHANGED <<d_parent, d_name, pc, leaf, capacity, dentry, parent, buf,
                   buflen, end, retval, error, result, oob>>
    /\ UNCHANGED <<kver, symVars, hashVars, uuidVars>>

RenameWrite ==
    /\ rpc = "locked"
    /\ \E nm \in RenameNames \cup {d_name[rnode]}, p \in LiveNodes \ {rnode} :
         /\ d_name' = [d_name EXCEPT ![rnode] = nm]
         /\ d_parent' = [d_parent EXCEPT ![rnode] = p]
         /\ pairs' = [pairs EXCEPT ![rnode] = @ \cup {<<nm, p>>}]
    /\ renames' = renames + 1
    /\ rpc' = "written"
    /\ UNCHANGED rnode
    /\ UNCHANGED <<d_lock, pc, leaf, capacity, dentry, parent, buf, buflen,
                   end, retval, error, result, oob>>
    /\ UNCHANGED <<kver, symVars, hashVars, uuidVars>>

RenameUnlock ==
    /\ rpc = "written"
    /\ d_lock' = [d_lock EXCEPT ![rnode] = 0]
    /\ rpc' = "idle"
    /\ UNCHANGED <<rnode, renames, pairs>>
    /\ UNCHANGED <<d_parent, d_name, pc, leaf, capacity, dentry, parent, buf,
                   buflen, end, retval, error, result, oob>>
    /\ UNCHANGED <<kver, symVars, hashVars, uuidVars>>

\* no rename in progress or done
RenIdle ==
    /\ rpc = "idle"
    /\ rnode = 0
    /\ renames = 0
    /\ pairs = [n \in Nodes |-> {<<d_name[n], d_parent[n]>>}]

\* The resolver at rest: nothing cached, no probe registered, no call made
SymIdle ==
    /\ kallsyms_lookup_name_sym = 0
    /\ probes = {}
    /\ regCount = 0
    /\ okCount = 0
    /\ calls = 0
    /\ spc = [t \in Threads |-> "idle"]
    /\ sname = [t \in Threads |-> "none"]
    /\ addr = [t \in Threads |-> 0]
    /\ seen = [t \in Threads |-> 0]
    /\ via = [t \in Threads |-> 0]
    /\ regResult = [t \in Threads |-> "none"]
    /\ sret = [t \in Threads |-> 0]
    /\ stores = <<>>

\* Initial states: chain t has depth dep[t] below RootOf(t); nodes past the
\* leaf are unused.
TreeParent == [n \in Nodes |->
                  IF \E t \in Threads : n = RootOf(t) THEN n ELSE n - 1]

RECURSIVE NameLenSum(_, _)
NameLenSum(nm, d) == IF d = 0 THEN 0 ELSE Len(nm[d]) + NameLenSum(nm, d - 1)

PathInit(active, dep, nm, cap) ==
    /\ d_parent = TreeParent
    /\ d_name = [n \in Nodes |->
                    LET t == IF n <= ChainSize THEN 1 ELSE 2
                        i == n - RootOf(t)
                    IN IF i >= 1 /\ i <= dep[t] THEN nm[t][i] ELSE <<>>]
    /\ d_lock = [n \in Nodes |-> 0]
    /\ pc = [t \in Threads |-> IF t \in active THEN "L79" ELSE "idle"]
    /\ leaf = [t \in Threads |-> RootOf(t) + dep[t]]
    /\ capacity = cap
    /\ dentry = [t \in Threads |-> RootOf(t) + dep[t]]
    /\ parent = [t \in Threads |-> 0]
    /\ buf = [t \in Threads |-> [i \in 0..(cap[t] - 1) |-> UNINIT]]
    /\ buflen = cap
    /\ end = [t \in Threads |-> 0]
    /\ retval = [t \in Threads |-> 0]
    /\ error = [t \in Threads |-> 0]
    /\ result = [t \in Threads |-> 0]
    /\ oob = [t \in Threads |-> FALSE]
    /\ RenIdle

\* one caller, every chain and every capacity up to two spare bytes
InitPath ==
    /\ kver = KERNEL_VERSION(5, 7, 0)
    /\ SymIdle
    /\ HashIdle
    /\ UuidIdle
    /\ \E d \in 0..MaxDepth :
      \E nm \in [1..d -> Names] :
        \E c \in 0..(NameLenSum(nm, d) + d + 3) :
          PathInit({1}, [t \in Threads |-> IF t = 1 THEN d ELSE 0],
                   [t \in Threads |-> IF t = 1 THEN nm ELSE <<>>],
                   [t \in Threads |-> IF t = 1 THEN c ELSE 0])

NextPath == \E t \in Threads : smith_dentry_path(t)

SpecPath == InitPath /\ [][NextPath]_vars

\* two callers on two chains that share no node; the names along a chain
\* are taken in turn from a cycle, chain 1 starting anywhere in its cycle
ConcNames1 == << <<"a">>, <<"b", "a">>, <<>> >>
ConcNames2 == << <<"b">>, <<"a", "a">> >>

ConcName(cycle, k, i) == cycle[((i + k) % Len(cycle)) + 1]

InitConc ==
    /\ kver = KERNEL_VERSION(5, 7, 0)
    /\ SymIdle
    /\ HashIdle
    /\ UuidIdle
    /\ \E d1 \in 0..MaxDepth, d2 \in 0..MaxDepth :
      \E k \in 1..Len(ConcNames1) :
        LET nm1 == [i \in 1..d1 |-> ConcName(ConcNames1, k, i)]
            nm2 == [i \in 1..d2 |-> ConcName(ConcNames2, 0, i)]
            need1 == NameLenSum(nm1, d1) + d1 + 1
            need2 == NameLenSum(nm2, d2) + d2 + 1
        IN \E c1 \in 0..need1, c2 \in {need2 - 1, need2, need2 + 1} :
             PathInit(Threads,
                      [t \in Threads |-> IF t = 1 THEN d1 ELSE d2],
                      [t \in Threads |-> IF t = 1 THEN nm1 ELSE nm2],
                      [t \in Threads |-> IF t = 1 THEN c1 ELSE c2])

SpecConc == InitConc /\ [][NextPath]_vars

\* no path reconstruction in progress
PathIdle ==
    PathInit({}, [t \in Threads |-> 0], [t \in Threads |-> <<>>],
             [t \in Threads |-> 0])

InitSym ==
    /\ kver \in KernelBuilds
    /\ SymIdle
    /\ PathIdle
    /\ HashIdle
    /\ UuidIdle

\* concurrent callers of smith_kallsyms_lookup_name
NextSym ==
    \E t \in Threads :
        \/ Call(t)
        \/ CheckCache(t)
        \/ Register(t)
        \/ Unregister(t)
        \/ Store(t)
        \/ CheckResolved(t)
        \/ Dispatch(t)
        \/ Direct(t)

SpecSym == InitSym /\ [][NextSym]_vars

\* callers that never overlap
NextSymSeq ==
    \E t \in Threads :
        \/ CallSeq(t)
        \/ CheckCache(t)
        \/ Register(t)
        \/ Unregister(t)
        \/ Store(t)
        \/ CheckResolved(t)
        \/ Dispatch(t)
        \/ Direct(t)

SpecSymSeq == InitSym /\ [][NextSymSeq]_vars

\* a buffer, a second one equal to it or changed in one byte, a length
\* within them, either char signedness
InitHash ==
    /\ kver = KERNEL_VERSION(5, 7, 0)
    /\ SymIdle
    /\ PathIdle
    /\ UuidIdle
    /\ charSigned \in BOOLEAN
    /\ \E n \in 0..MaxHashLen :
         /\ \E s1 \in [1..n -> HashBytes], p \in 1..(n + 1), c \in HashBytes :
              hs = <<s1, [i \in 1..n |-> IF i = p THEN c ELSE s1[i]]>>
         /\ hlen \in 0..n
    /\ hout = <<<<>>, <<>>>>

NextHash == \E k \in 1..2 : HashCall(k)

SpecHash == InitHash /\ [][NextHash]_vars

\* every build, every content of the descriptors
InitUuid ==
    /\ kver \in KernelBuilds
    /\ SymIdle
    /\ PathIdle
    /\ HashIdle
    /\ sbData \in [SbBases -> SbContents]
    /\ uuidLog = {}

NextUuid == \E sb \in SbBases : QueryUuid(sb)

SpecUuid == InitUuid /\ [][NextUuid]_vars

\* the chain the renamer works on, names from the top down
RenameChain == << <<"a">>, <<"b", "a">> >>

RenameNeed(d) == NameLenSum(RenameChain, d) + d + 1

\* walkers started at depths dep of that chain (0: not started) with
\* capacities cap
RenameInit(dep, cap) ==
    /\ d_parent = TreeParent
    /\ d_name = [n \in Nodes |->
                    IF n > RootOf(1) /\ n <= RootOf(1) + Len(RenameChain)
                    THEN RenameChain[n - RootOf(1)] ELSE <<>>]
    /\ d_lock = [n \in Nodes |-> 0]
    /\ pc = [t \in Threads |-> IF dep[t] > 0 THEN "L79" ELSE "idle"]
    /\ leaf = [t \in Threads |-> RootOf(1) + dep[t]]
    /\ dentry = [t \in Threads |-> RootOf(1) + dep[t]]
    /\ capacity = cap
    /\ buflen = cap
    /\ buf = [t \in Threads |-> [i \in 0..(cap[t] - 1) |-> UNINIT]]
    /\ parent = [t \in Threads |-> 0]
    /\ end = [t \in Threads |-> 0]
    /\ retval = [t \in Threads |-> 0]
    /\ error = [t \in Threads |-> 0]
    /\ result = [t \in Threads |-> 0]
    /\ oob = [t \in Threads |-> FALSE]
    /\ RenIdle

\* one walker from the leaf of the chain, the renamer at work on the chain
InitRename ==
    /\ kver = KERNEL_VERSION(5, 7, 0)
    /\ SymIdle
    /\ HashIdle
    /\ UuidIdle
    /\ \E c \in 0..(RenameNeed(Len(RenameChain)) + 2) :
         RenameInit([t \in Threads |-> IF t = 1 THEN Len(RenameChain) ELSE 0],
                    [t \in Threads |-> IF t = 1 THEN c ELSE 0])

\* two walkers on the chain, the second starting at any node of it
InitShared ==
    /\ kver = KERNEL_VERSION(5, 7, 0)
    /\ SymIdle
    /\ HashIdle
    /\ UuidIdle
    /\ \E d2 \in 1..Len(RenameChain) :
         RenameInit([t \in Threads |-> IF t = 1 THEN Len(RenameChain) ELSE d2],
                    [t \in Threads |-> IF t = 1
                                         THEN RenameNeed(Len(RenameChain))
                                         ELSE RenameNeed(d2)])

NextRename ==
    \/ \E t \in Threads : smith_dentry_path(t)
    \/ \E n \in Nodes : RenameBegin(n)
    \/ RenameLock
    \/ RenameWrite
    \/ RenameUnlock

SpecRename == InitRename /\ [][NextRename]_vars

SpecShared == InitShared /\ [][NextRename]_vars

\* spin_lock is a fair lock and a running thread keeps running: a walker
\* takes every step that stays possible and gets the lock it keeps finding
\* free; the renamer finishes a critical section it has entered
SpecRenameFair ==
    /\ SpecRename
    /\ \A t \in Threads : WF_vars(smith_dentry_path(t))
    /\ \A t \in Threads : SF_vars(Lock(t))
    /\ WF_vars(RenameWrite)
    /\ WF_vars(RenameUnlock)

----------------------------------------------------------------------------
\* Properties of smith_dentry_path

Returned(t) == pc[t] = "done"
Need(t) == TotalLen(leaf[t]) + Depth(leaf[t]) + 1
Max(a, b) == IF a >= b THEN a ELSE b
Succeeded(t) ==
    /\ result[t] \in DOMAIN buf[t]
    /\ CStr(buf[t], result[t]) = PathOf(leaf[t])
Failed(t) == result[t] = ERR_PTR(-ENAMETOOLONG)

\* C1 as stated: for every chain (d >= 0 non-root nodes, name bytes L) a
\* capacity >= L + d + 1 succeeds with "/name1/.../nameD" and capacity
\* L + d fails with length-exceeded.
C1_AsStated ==
    \A t \in Threads : Returned(t) =>
        /\ capacity[t] >= Need(t) => Succeeded(t)
        /\ capacity[t] = Need(t) - 1 => Failed(t)

\* C1 amended: a capacity >= max(L + d + 1, 2) succeeds with
\* "/name1/.../nameD"; capacity exactly L + d fails with length-exceeded.
C1_PathExactCapacity ==
    \A t \in Threads : Returned(t) =>
        /\ capacity[t] >= Max(Need(t), 2) => Succeeded(t)
        /\ capacity[t] = Need(t) - 1 => Failed(t)

C1_Witness ==
    \E t \in Threads :
        /\ Returned(t) /\ Depth(leaf[t]) >= 2 /\ TotalLen(leaf[t]) >= 2
        /\ capacity[t] = Need(t) /\ Succeeded(t)

\* C2: on a root node alone, any capacity >= 2 succeeds and the returned
\* pointer is the one-character path "/".
C2_RootAlone ==
    \A t \in Threads :
        (Returned(t) /\ IS_ROOT(leaf[t]) /\ capacity[t] >= 2) =>
            /\ result[t] = capacity[t] - 2
            /\ CStr(buf[t], result[t]) = <<SLASH>>

C2_Witness ==
    \E t \in Threads :
        /\ Returned(t) /\ IS_ROOT(leaf[t]) /\ capacity[t] > 2
        /\ result[t] = capacity[t] - 2

\* C3: two callers on chains that share no node never reach a state where
\* a caller has not returned and no step is possible, and a caller with a
\* large-enough buffer returns exactly the path of its own chain.
C3_IndependentChains ==
    /\ (\A t \in Threads : Returned(t)) \/ ENABLED NextPath
    /\ \A t \in Threads :
          (Returned(t) /\ capacity[t] >= Max(Need(t), 2)) => Succeeded(t)

C3_Witness ==
    /\ \A t \in Threads :
          Returned(t) /\ Depth(leaf[t]) >= 2 /\ Succeeded(t)
    /\ PathOf(leaf[1]) # PathOf(leaf[2])

\* C6: every capacity from 0 to L + d yields ERR_PTR(-ENAMETOOLONG), which
\* is no pointer into the buffer, and a returned string never lacks a
\* component of the chain.
C6_NoTruncation ==
    \A t \in Threads : Returned(t) =>
        /\ capacity[t] <= Need(t) - 1 =>
              (Failed(t) /\ result[t] \notin DOMAIN buf[t])
        /\ ~Failed(t) => Succeeded(t)

C6_Witness ==
    \E t \in Threads :
        /\ Returned(t) /\ Failed(t) /\ Depth(leaf[t]) >= 2
        /\ capacity[t] = Need(t) - 1
        /\ retval[t] \in DOMAIN buf[t] /\ retval[t] < capacity[t] - 2

\* C7: at every return, success or length-exceeded, the caller holds no
\* d_lock.
C7_NoLockHeldAtReturn ==
    \A t \in Threads : Returned(t) => \A n \in Nodes : d_lock[n] # t

C7_Witness ==
    \E t \in Threads :
        /\ Returned(t) /\ Failed(t) /\ error[t] # 0
        /\ \A n \in Nodes : d_lock[n] = 0


----------------------------------------------------------------------------
\* Properties of smith_kallsyms_lookup_name

SymReturns(t) == spc[t] # "idle" /\ spc'[t] = "idle"

\* C4: once a call has registered the probe and cached a non-zero address,
\* no later call invokes register_kprobe, the cached address stays, and
\* every later call dispatches through it.
C4_NoReRegistration ==
    [][kallsyms_lookup_name_sym # 0 =>
          /\ regCount' = regCount
          /\ kallsyms_lookup_name_sym' = kallsyms_lookup_name_sym
          /\ \A t \in Threads :
                /\ spc'[t] # "fault"
                /\ SymReturns(t) => via'[t] = kallsyms_lookup_name_sym]_vars

C4_Witness ==
    /\ kallsyms_lookup_name_sym # 0
    /\ regCount = 1
    /\ \E t \in Threads :
          /\ spc[t] = "idle" /\ regResult[t] = "none"
          /\ via[t] = kallsyms_lookup_name_sym
          /\ sret[t] = SysCallTableAddr

\* C5 as stated: under every interleaving of concurrent first calls, once
\* a non-zero address is stored the cache never changes value and never
\* reverts to uninitialized.
C5_CacheStable ==
    [][kallsyms_lookup_name_sym # 0 =>
          kallsyms_lookup_name_sym' = kallsyms_lookup_name_sym]_vars

\* C8: a call whose register_kprobe fails returns 0 without invoking a
\* lookup routine and leaves the cache uninitialized; the next call
\* registers again; calls return 0 until a call whose registration
\* succeeds, and that call returns the looked-up address.
C8_State ==
    Indirect =>
    /\ \A t \in Threads :
          /\ regResult[t] = "fail" =>
                /\ spc[t] \notin {"L48", "fault"}
                /\ via[t] = 0
                /\ spc[t] = "idle" => sret[t] = 0
          /\ (regResult[t] = "ok" /\ spc[t] = "idle") =>
                /\ via[t] = LookupNameAddr
                /\ sret[t] = kallsyms_lookup_name(sname[t])
    /\ okCount = 0 =>
          /\ kallsyms_lookup_name_sym = 0
          /\ \A t \in Threads : sret[t] = 0

C8_Step ==
    \A t \in Threads :
        /\ (regResult[t] = "fail" /\ SymReturns(t)) =>
              kallsyms_lookup_name_sym' = 0
        /\ (okCount = 0 /\ spc[t] = "L43" /\ spc'[t] # "L43") =>
              spc'[t] = "L32"
        /\ (spc[t] = "L32" /\ spc'[t] # "L32") => regCount' = regCount + 1

C8_RetryUntilRegistered == [](C8_State) /\ [][C8_Step]_vars

C8_Witness ==
    /\ okCount = 1
    /\ regCount >= 2
    /\ \E t \in Threads :
          /\ spc[t] = "idle" /\ regResult[t] = "ok"
          /\ sret[t] = SysCallTableAddr


----------------------------------------------------------------------------
\* Properties of hash_murmur_OAAT64 and smith_query_sb_uuid

Hashed == hout[1] # <<>> /\ hout[2] # <<>>
DiffPositions == {i \in 1..hlen : hs[1][i] # hs[2][i]}

\* C9: two byte strings of one length len >= 1 that differ in exactly one
\* position hash to different values; identical bytes and length hash to
\* identical values.
C9_SingleByteChange ==
    Hashed =>
        /\ (hlen >= 1 /\ Cardinality(DiffPositions) = 1) => hout[1] # hout[2]
        /\ DiffPositions = {} => hout[1] = hout[2]

C9_Witness ==
    /\ Hashed
    /\ hlen = 2
    /\ DiffPositions = {1}
    /\ hs[1][1] = 0 /\ hs[2][1] = 128
    /\ hout[1] # hout[2]

\* C10: within one build every call returns the descriptor's base plus one
\* and the same offset, whatever the descriptor holds, and the descriptor
\* is left as it was.
C10_FixedOffset ==
    /\ Cardinality({r.ret - r.base : r \in uuidLog}) <= 1
    /\ \A r \in uuidLog : r.ret >= r.base /\ sbData[r.base] = r.data

C10_Witness ==
    \E r1, r2 \in uuidLog :
        /\ r1.base # r2.base
        /\ r1.data # r2.data
        /\ r1.ret - r1.base = r2.ret - r2.base
        /\ kver >= KERNEL_VERSION(2, 6, 39)


----------------------------------------------------------------------------
\* Concurrent callers of smith_kallsyms_lookup_name

\* C12: over the process lifetime the cached pointer is assigned an address
\* at most once; no second caller resolves through its own probe and
\* writes the cache again.
C12_AssignedOnce ==
    Cardinality({i \in DOMAIN stores : stores[i] # 0}) <= 1

\* C13: a registered probe exists only between a successful
\* register_kprobe and the unregister_kprobe of the same call, a failed
\* registration never reaches unregister_kprobe, and no probe is left
\* registered when no call is in progress.
C13_ProbeRemoved ==
    /\ \A t \in Threads :
          /\ t \in probes <=> spc[t] = "L36"
          /\ spc[t] = "L36" => regResult[t] = "ok"
          /\ regResult[t] = "fail" => t \notin probes
    /\ (\A t \in Threads : spc[t] = "idle") => probes = {}

C13_Witness ==
    /\ \A t \in Threads : spc[t] = "idle"
    /\ probes = {}
    /\ okCount >= 1
    /\ regCount >= 2
    /\ \E t \in Threads : regResult[t] = "fail"

\* C19: no caller ever calls through a zero address at line 48.
C19_NoCallThroughZero == \A t \in Threads : spc[t] # "fault"


----------------------------------------------------------------------------
\* Buffer discipline and lock scope of smith_dentry_path

Holds(t) == {n \in Nodes : d_lock[n] = t}

\* C14: a prepend that would take the remaining capacity below zero writes
\* nothing, leaves the cursor, and the call returns length-exceeded; the
\* cursor never moves below buf and no byte is written outside
\* [buf, buf + capacity).
C14_State ==
    \A t \in Threads :
        /\ ~oob[t]
        /\ end[t] \in 0..capacity[t]
        /\ buflen[t] < 0 => pc[t] \in {"L95", "L96", "done"}
        /\ (buflen[t] < 0 /\ Returned(t)) => Failed(t)

C14_Step ==
    \A t \in Threads :
        (buflen[t] >= 0 /\ buflen'[t] < 0) =>
            (buf'[t] = buf[t] /\ end'[t] = end[t])

C14_NoUnderflowWrite == [](C14_State) /\ [][C14_Step]_vars

C14_Witness ==
    \E t \in Threads :
        /\ Returned(t) /\ Failed(t) /\ buflen[t] < 0 /\ error[t] # 0
        /\ capacity[t] >= 2 /\ end[t] = capacity[t] - 1

\* C16 as stated: no d_lock is held by the caller at the moment of any
\* write into the caller's buffer.
C16_AsStated ==
    [][\A t \in Threads : buf'[t] # buf[t] => Holds(t) = {}]_vars

\* C16 amended: the caller holds only the current node's d_lock and only
\* across the prepend of that node's name (lines 94-95); the terminator,
\* the provisional '/' and every separator are written with no lock held.
C16_LockScope_State ==
    \A t \in Threads :
        /\ Holds(t) # {} => (pc[t] \in {"L94", "L95"} /\ Holds(t) = {dentry[t]})
        /\ pc[t] \in {"L94", "L95"} => Holds(t) = {dentry[t]}

C16_LockScope_Step ==
    \A t \in Threads :
        (buf'[t] # buf[t] /\ Holds(t) # {}) => (pc[t] = "L94" /\ pc'[t] = "L95")

C16_LockScope == [](C16_LockScope_State) /\ [][C16_LockScope_Step]_vars

C16_Witness ==
    \E t \in Threads :
        /\ pc[t] = "L95" /\ Holds(t) = {dentry[t]} /\ error[t] = 0
        /\ Len(d_name[dentry[t]]) > 0
        /\ buf[t][end[t]] = d_name[dentry[t]][1]

----------------------------------------------------------------------------
\* The fold hash_murmur_OAAT64 is documented to compute

\* XOR of a byte value 0..255 into the low eight bits only
RefStep(h, c) ==
    LET h1 == [i \in 1..8 |-> IF i = 1 THEN XorBits(h[1], c, 8) ELSE h[i]]
        h2 == Mul64(h1, HashMul)
    IN Xor64(h2, Shr47(h2))

RECURSIVE RefFold(_, _, _, _)
RefFold(h, s, i, len) ==
    IF i < len THEN RefFold(RefStep(h, s[i + 1]), s, i + 1, len) ELSE h

\* C15: for every byte string and every len >= 0 the result equals the
\* fold from the seed that XORs each byte's value 0..255 into the low eight
\* bits, multiplies modulo 2^64 and XORs with the 47-bit right shift; len
\* bytes are read and len = 0 gives the seed.
C15_EqualsReferenceFold ==
    \A k \in 1..2 :
        hout[k] # <<>> => hout[k] = RefFold(HashSeed, hs[k], 0, hlen)


----------------------------------------------------------------------------
\* smith_dentry_path against concurrent renames

\* C11: the name and the parent a walk step uses for a node form a pair
\* the node held at one instant, also when a renamer changes both
\* together under the node's d_lock.
C11_PairUnderLock ==
    \A t \in Threads :
        (pc[t] = "L95" /\ error[t] = 0) =>
            <<d_name[dentry[t]], parent[t]>> \in pairs[dentry[t]]

WalkDone == \A t \in Threads : pc[t] \in {"done", "idle"}

\* C17: every walk returns, whatever the renamer does to the chain, given
\* fair locks; each completed loop iteration takes at least one byte of
\* the remaining capacity, which never goes below zero on the way.
C17_Step ==
    \A t \in Threads :
        (pc[t] = "L96" /\ pc'[t] = "L88") =>
            (buflen'[t] < buflen[t] /\ buflen'[t] >= 0)

C17_WalkReturns == [][C17_Step]_vars /\ <>WalkDone

C17_Witness ==
    /\ WalkDone
    /\ \E t \in Threads :
          /\ Returned(t) /\ Failed(t)
          /\ capacity[t] >= RenameNeed(Len(RenameChain))
    /\ \E n \in Nodes : d_parent[n] # n /\ d_parent[d_parent[n]] = n

\* C18: a walker holds at most one d_lock and asks for none while holding
\* one; with walkers sharing nodes and the renamer locking one node at a
\* time, a thread that waits for a lock waits for a holder that can run,
\* and a thread that does not wait can run.
Waiting(t) == pc[t] = "L93" /\ d_lock[dentry[t]] # 0

HolderRuns(h) ==
    IF h = Renamer THEN ENABLED (RenameWrite \/ RenameUnlock)
    ELSE ENABLED smith_dentry_path(h)

C18_NoDeadlock ==
    /\ \A t \in Threads :
          /\ Cardinality(Holds(t)) <= 1
          /\ pc[t] = "L93" => Holds(t) = {}
          /\ pc[t] \notin {"done", "idle"} =>
                IF Waiting(t) THEN HolderRuns(d_lock[dentry[t]])
                ELSE ENABLED smith_dentry_path(t)
    /\ Cardinality(Holds(Renamer)) <= 1
    /\ rpc = "want" => (Holds(Renamer) = {} /\
                          (d_lock[rnode] # 0 => HolderRuns(d_lock[rnode])))

C18_Witness ==
    \E t, u \in Threads :
        /\ t # u
        /\ Waiting(t) /\ d_lock[dentry[t]] = u
        /\ rpc = "want" /\ rnode = dentry[t]
        /\ renames >= 1

====
